---------------------------- MODULE Spec2Model ----------------------------
(***************************************************************************)
(* A model of the marimo frontend's data-source state: the connection      *)
(* registry reducer (data-source-connections), the allTablesAtom name      *)
(* resolution, sortedTablesAtom, the data-sources panel's search/preview   *)
(* state and add button, the language panel with its SQL engine selector,  *)
(* the tree of a connection, the DataTable's row ids, pagination state     *)
(* and row clicks, unwrapMarimoChatHTML and the isDate of the vega tests.  *)
(***************************************************************************)
EXTENDS Integers, Sequences, FiniteSets, TLC

VARIABLES
    store,            \* dataSourceConnectionsAtom : DataSourceState
    last,             \* the last reducer operation: its name, arguments and the state it ran on
    datasets,         \* datasetTablesAtom : the local datasets, in order
    tablesOut,        \* the last value read from allTablesAtom
    searchValue,      \* DataSourcesPanel: useState searchValue
    closeAllColumns,  \* closeAllColumnsAtom
    tableExpanded,    \* DatasetTableItem isExpanded, per table of the Python list
    columnExpanded,   \* DatasetColumnItem isExpanded, per mounted column
    panelLast,        \* the last panel event
    adapterEngine,    \* SQLLanguageAdapter.engine
    selectedEngine,   \* SQLEngineSelect: useState selectedEngine
    selectMounted,    \* whether SQLEngineSelect is mounted
    doc,              \* view.state.doc: the editor's document, a list of characters
    dataframeName,    \* SQLLanguageAdapter.dataframeName
    showOutput,       \* SQLLanguageAdapter.showOutput
    panelEvent,       \* the last handler of the language panel: the document it met, the changes it dispatched
    props,            \* DataTable props of the last render
    rowIds,           \* row ids of the last render (data-table with stable ids)
    rowIdsVirtual,    \* row ids of the last render (virtualized data-table)
    statePagination,  \* state.pagination handed to useReactTable by the last render
    variables,        \* variablesAtom : the notebook's variables and their declaring cells
    cellIds,          \* cellIdsAtom : inOrderIds, the cells in notebook order
    sortedOut,        \* the last value read from sortedTablesAtom
    autoInstantiate,  \* autoInstantiateAtom
    lastFocusedCellId, \* useLastFocusedCellId(): null until a cell is focused
    addTableClick,    \* the last click on a table's add button: the table and the focus then
    addTableCalls,    \* the calls made by that click, in order
    html,             \* the argument of unwrapMarimoChatHTML: the nodes its markup denotes
    chatContent,      \* the content the backend wrapped into html, if it did
    raises,           \* where the libraries raise an exception on html, if anywhere
    unwrapped,        \* what the last call of unwrapMarimoChatHTML came to
    dateValue,        \* the argument of isDate
    isDateResult,     \* what the last call of isDate returned
    rowSelection,     \* RowSelectionState of the DataTable's parent: the ids of the selected rows
    onRowSelectionChange, \* whether the parent passed onRowSelectionChange
    lastRowClick,     \* the last click on a row: the row and the selection it met
    treeExpanded,     \* isExpanded of every mounted node of the connections' tree
    lastTreeSelect,   \* the last select event on the tree: the node and the flags it met
    prevTreeSelect    \* the select event before that

reducerVars == <<store, last>>
tablesVars  == <<datasets, tablesOut>>
panelVars   == <<searchValue, closeAllColumns, tableExpanded, columnExpanded, panelLast>>
selectVars  == <<adapterEngine, selectedEngine, selectMounted,
                 doc, dataframeName, showOutput, panelEvent>>
gridVars    == <<props, rowIds, rowIdsVirtual, statePagination>>
sortVars    == <<variables, cellIds, sortedOut>>
addVars     == <<autoInstantiate, lastFocusedCellId, addTableClick, addTableCalls>>
htmlVars    == <<html, chatContent, raises, unwrapped>>
dateVars    == <<dateValue, isDateResult>>
clickVars   == <<rowSelection, onRowSelectionChange, lastRowClick>>
treeVars    == <<treeExpanded, lastTreeSelect, prevTreeSelect>>
utilVars    == <<sortVars, addVars, htmlVars, dateVars, clickVars, treeVars>>
vars == <<reducerVars, tablesVars, panelVars, selectVars, gridVars, utilVars>>

----------------------------------------------------------------------------
(* Bounds of the model *)

\* longest connection list handed to addDataSourceConnection
MaxConnections == 2

\* most local datasets
MaxDatasets == 2

\* most rows handed to the DataTable, the largest page index and page size
MaxRows == 2
MaxPageIndex == 2
MaxPageSize == 2

----------------------------------------------------------------------------
(* Names and values *)

DEFAULT_ENGINE == "__marimo_duckdb"

\* connection names that occur: the default engine and two engine variables
EngineVariables == {"pg", "lite"}
ConnectionNames == {DEFAULT_ENGINE} \cup EngineVariables

\* variable names of the notebook: the engine variables and a dataframe
VariableNames == EngineVariables \cup {"df"}

\* catalogs a connection can report: databases -> schemas -> tables
CatalogEmpty == <<>>
CatalogOne ==
    << [name |-> "d", schemas |-> << [name |-> "s", tables |-> <<"t">>] >>] >>
CatalogTwo ==
    << [name |-> "d", schemas |-> << [name |-> "s", tables |-> <<"t", "u">>] >>],
       [name |-> "e", schemas |-> << [name |-> "s", tables |-> <<"t">>] >>] >>

\* interface DataSourceConnection: the name and the databases it carries;
\* these are the connections the kernel announces
DataSourceConnection == [name : EngineVariables, databases : {CatalogOne, CatalogTwo}]

Range(s) == {s[i] : i \in DOMAIN s}

\* the connection lists of at most n connections
ConnectionLists(n) == UNION {[1..k -> DataSourceConnection] : k \in 0..n}

----------------------------------------------------------------------------
(* ReadonlyMap<ConnectionName, DataSourceConnection>: a JavaScript Map is  *)
(* a list of entries in insertion order with distinct keys.                *)

MapKeys(m) == {m[i].key : i \in DOMAIN m}

MapHas(m, k) == \E i \in DOMAIN m : m[i].key = k

MapGet(m, k) == m[CHOOSE i \in DOMAIN m : m[i].key = k].value

\* Map.prototype.set: an existing key keeps its place and takes the new
\* value, a new key is appended
MapSet(m, k, v) ==
    IF MapHas(m, k)
    THEN [i \in DOMAIN m |-> IF m[i].key = k THEN [key |-> k, value |-> v] ELSE m[i]]
    ELSE Append(m, [key |-> k, value |-> v])

\* Map.prototype.delete
MapDelete(m, k) == SelectSeq(m, LAMBDA e : e.key # k)

----------------------------------------------------------------------------
(* The reducer of data-source-connections *)

initialState ==
    [latestEngineSelected |-> DEFAULT_ENGINE,
     connectionsMap |-> << [key |-> DEFAULT_ENGINE,
                            value |-> [name |-> DEFAULT_ENGINE, databases |-> CatalogEmpty]] >>]

\* a variant that walks the list from its end, so the first connection
\* with a name wins
RECURSIVE SetAllFirstWins(_, _)
SetAllFirstWins(m, connections) ==
    IF connections = <<>> THEN m
    ELSE LET n == Len(connections)
         IN  SetAllFirstWins(MapSet(m, connections[n].name, connections[n]),
                             SubSeq(connections, 1, n - 1))

\* for (const conn of opts.connections) newMap.set(conn.name, conn)
RECURSIVE SetAll(_, _)
SetAll(m, connections) ==
    IF connections = <<>> THEN m
    ELSE SetAll(MapSet(m, Head(connections).name, Head(connections)), Tail(connections))

\* a variant that also selects the connection added last
addSelectsNewest(state, connections) ==
    IF Len(connections) = 0 THEN state
    ELSE [latestEngineSelected |-> connections[Len(connections)].name,
          connectionsMap |-> SetAll(state.connectionsMap, connections)]

addDataSourceConnection(state, connections) ==
    IF Len(connections) = 0 THEN state
    ELSE [latestEngineSelected |-> state.latestEngineSelected,
          connectionsMap |-> SetAll(state.connectionsMap, connections)]

\* a variant that keeps only the connections used by variables
filterWithoutDefault(state, variableNames) ==
    LET newMap == SelectSeq(state.connectionsMap, LAMBDA e : e.key \in variableNames)
    IN  [latestEngineSelected |->
             IF MapHas(newMap, state.latestEngineSelected)
             THEN state.latestEngineSelected ELSE DEFAULT_ENGINE,
         connectionsMap |-> newMap]

filterDataSourcesFromVariables(state, variableNames) ==
    LET newMap == SelectSeq(state.connectionsMap,
                            LAMBDA e : e.key = DEFAULT_ENGINE \/ e.key \in variableNames)
    IN  [latestEngineSelected |->
             IF MapHas(newMap, state.latestEngineSelected)
             THEN state.latestEngineSelected ELSE DEFAULT_ENGINE,
         connectionsMap |-> newMap]

clearDataSourceConnections ==
    [latestEngineSelected |-> DEFAULT_ENGINE, connectionsMap |-> <<>>]

\* a variant that leaves latestEngineSelected as it was
removeKeepsLatest(state, connectionName) ==
    [latestEngineSelected |-> state.latestEngineSelected,
     connectionsMap |-> MapDelete(state.connectionsMap, connectionName)]

\* a variant that refuses to remove the default engine
removeExceptDefault(state, connectionName) ==
    LET newMap == IF connectionName = DEFAULT_ENGINE THEN state.connectionsMap
                  ELSE MapDelete(state.connectionsMap, connectionName)
    IN  [latestEngineSelected |->
             IF MapHas(newMap, state.latestEngineSelected)
             THEN state.latestEngineSelected ELSE DEFAULT_ENGINE,
         connectionsMap |-> newMap]

removeDataSourceConnection(state, connectionName) ==
    LET newMap == MapDelete(state.connectionsMap, connectionName)
    IN  [latestEngineSelected |->
             IF MapHas(newMap, state.latestEngineSelected)
             THEN state.latestEngineSelected ELSE DEFAULT_ENGINE,
         connectionsMap |-> newMap]

\* a variant without the membership test
setLatestUnguarded(state, engine) ==
    [state EXCEPT !.latestEngineSelected = engine]

\* setLatestEngineSelected writes the store only when the engine is a key
setLatestEngineSelected(state, engine) ==
    IF MapHas(state.connectionsMap, engine)
    THEN [state EXCEPT !.latestEngineSelected = engine]
    ELSE state

----------------------------------------------------------------------------
(* The operations on the store; last records what ran and on which state *)

NoOp == [op |-> "none", pre |-> initialState, connections |-> <<>>,
         names |-> {}, name |-> ""]

DispatchAdd ==
    \E connections \in ConnectionLists(MaxConnections) :
        /\ store' = addDataSourceConnection(store, connections)
        /\ last' = [NoOp EXCEPT !.op = "addDataSourceConnection", !.pre = store,
                                !.connections = connections]

DispatchFilter ==
    \E variableNames \in SUBSET VariableNames :
        /\ store' = filterDataSourcesFromVariables(store, variableNames)
        /\ last' = [NoOp EXCEPT !.op = "filterDataSourcesFromVariables", !.pre = store,
                                !.names = variableNames]

DispatchClear ==
    /\ store' = clearDataSourceConnections
    /\ last' = [NoOp EXCEPT !.op = "clearDataSourceConnections", !.pre = store]

DispatchRemove ==
    \E connectionName \in ConnectionNames :
        /\ store' = removeDataSourceConnection(store, connectionName)
        /\ last' = [NoOp EXCEPT !.op = "removeDataSourceConnection", !.pre = store,
                                !.name = connectionName]

SetLatestEngine ==
    \E engine \in ConnectionNames :
        /\ store' = setLatestEngineSelected(store, engine)
        /\ last' = [NoOp EXCEPT !.op = "setLatestEngineSelected", !.pre = store,
                                !.name = engine]


----------------------------------------------------------------------------
(* allTablesAtom: the tables of all connections and the local datasets,    *)
(* keyed by a name that is qualified when the plain name is taken          *)

\* a local dataset of datasetTablesAtom
LocalTable(name) ==
    [name |-> name, source_type |-> "local", engine |-> "", database |-> "", schema |-> ""]

\* the table object found at schema.tables of one connection; engine,
\* database and schema tell the objects of different places apart
ConnectionTable(engine, database, schema, name) ==
    [name |-> name, source_type |-> "connection", engine |-> engine,
     database |-> database, schema |-> schema]

\* for (const table of schema.tables)
TablesOfSchema(engine, database, schema) ==
    [i \in DOMAIN schema.tables |->
        ConnectionTable(engine, database.name, schema.name, schema.tables[i])]

\* for (const schema of database.schemas)
RECURSIVE TablesOfSchemas(_, _, _)
TablesOfSchemas(engine, database, schemas) ==
    IF schemas = <<>> THEN <<>>
    ELSE TablesOfSchema(engine, database, Head(schemas))
             \o TablesOfSchemas(engine, database, Tail(schemas))

\* for (const database of conn.databases)
RECURSIVE TablesOfDatabases(_, _)
TablesOfDatabases(engine, databases) ==
    IF databases = <<>> THEN <<>>
    ELSE TablesOfSchemas(engine, Head(databases), Head(databases).schemas)
             \o TablesOfDatabases(engine, Tail(databases))

\* for (const conn of connections.values()): the tables in the order the
\* four loops visit them
RECURSIVE Visits(_)
Visits(connections) ==
    IF connections = <<>> THEN <<>>
    ELSE TablesOfDatabases(Head(connections).value.name, Head(connections).value.databases)
             \o Visits(Tail(connections))

\* a variant that always takes the plain name
NameToSavePlain(tableNames, table) == table.name

\* a variant that takes schema.table whenever the plain name is taken
NameToSaveTwoLevels(tableNames, table) ==
    IF MapHas(tableNames, table.name)
    THEN table.schema \o "." \o table.name
    ELSE table.name

\* let nameToSave = table.name; if taken `${schema.name}.${table.name}`; if
\* that is taken too `${database.name}.${schema.name}.${table.name}`
NameToSave(tableNames, table) ==
    IF MapHas(tableNames, table.name)
    THEN IF MapHas(tableNames, table.schema \o "." \o table.name)
         THEN table.database \o "." \o table.schema \o "." \o table.name
         ELSE table.schema \o "." \o table.name
    ELSE table.name

\* for (const dataset of datasets) tableNames.set(dataset.name, dataset)
RECURSIVE SetDatasets(_, _)
SetDatasets(tableNames, ds) ==
    IF ds = <<>> THEN tableNames
    ELSE SetDatasets(MapSet(tableNames, Head(ds).name, Head(ds)), Tail(ds))

\* the body of the innermost loop over the visited tables; savedAs records the
\* nameToSave of every visit
RECURSIVE SaveTables(_, _, _)
SaveTables(tableNames, savedAs, visits) ==
    IF visits = <<>> THEN [read |-> TRUE, tableNames |-> tableNames, savedAs |-> savedAs]
    ELSE LET nameToSave == NameToSave(tableNames, Head(visits))
         IN  SaveTables(MapSet(tableNames, nameToSave, Head(visits)),
                        Append(savedAs, nameToSave), Tail(visits))

allTablesAtom(ds, connections) ==
    SaveTables(SetDatasets(<<>>, ds), <<>>, Visits(connections))

----------------------------------------------------------------------------
(* The parts of the state a specification does not exercise stay as        *)
(* constructed.                                                            *)

NotRead == [read |-> FALSE, tableNames |-> <<>>, savedAs |-> <<>>]

TablesIdle == datasets = <<>> /\ tablesOut = NotRead

PanelIdle ==
    /\ searchValue = ""
    /\ closeAllColumns = FALSE
    /\ tableExpanded = <<>>
    /\ columnExpanded = <<>>
    /\ panelLast = "none"

\* JavaScript's undefined, and a defined value
Undefined == [defined |-> FALSE]
Defined(v) == [defined |-> TRUE, value |-> v]

NoLanguagePanelEvent == [event |-> "none", docBefore |-> <<>>, dispatched |-> <<>>]

SelectIdle ==
    /\ adapterEngine = DEFAULT_ENGINE
    /\ selectedEngine = Undefined
    /\ selectMounted = FALSE
    /\ doc = <<>> /\ dataframeName = "_df" /\ showOutput = TRUE
    /\ panelEvent = NoLanguagePanelEvent

NotRendered == [rendered |-> FALSE]

NotSorted == [read |-> FALSE, tables |-> <<>>]

SortIdle == variables = <<>> /\ cellIds = <<>> /\ sortedOut = NotSorted

AddIdle ==
    /\ autoInstantiate = FALSE /\ lastFocusedCellId = Undefined
    /\ addTableClick = Undefined /\ addTableCalls = <<>>

NotCalled == [called |-> FALSE]

HtmlIdle ==
    /\ html = <<>> /\ chatContent = Undefined /\ raises = "none"
    /\ unwrapped = NotCalled

DateIdle == dateValue = [type |-> "undefined"] /\ isDateResult = NotCalled

NoRowClick == [clicked |-> FALSE]

ClickIdle ==
    /\ rowSelection = {} /\ onRowSelectionChange = FALSE
    /\ lastRowClick = NoRowClick

NoTreeSelect == [selected |-> FALSE]

TreeIdle ==
    /\ treeExpanded = <<>>
    /\ lastTreeSelect = NoTreeSelect /\ prevTreeSelect = NoTreeSelect

UtilIdle == SortIdle /\ AddIdle /\ HtmlIdle /\ DateIdle /\ ClickIdle /\ TreeIdle

GridIdle ==
    /\ props = NotRendered /\ rowIds = <<>> /\ rowIdsVirtual = <<>>
    /\ statePagination = Undefined

----------------------------------------------------------------------------
(* The connection registry: every sequence of reducer operations *)

Init ==
    /\ store = initialState
    /\ last = NoOp
    /\ TablesIdle /\ PanelIdle /\ SelectIdle /\ GridIdle
    /\ UtilIdle

Next ==
    /\ \/ DispatchAdd
       \/ DispatchFilter
       \/ DispatchClear
       \/ DispatchRemove
       \/ SetLatestEngine
    /\ UNCHANGED <<tablesVars, panelVars, selectVars, gridVars, utilVars>>

Spec == Init /\ [][Next]_vars

----------------------------------------------------------------------------
(* Reading allTablesAtom: the local datasets and the connections are any  *)
(* the program can hold, and the atom is read                             *)

\* names of local datasets (Python variables)
DatasetNames == {"t", "u", "df"}

\* datasetTablesAtom: local datasets, with distinct names
DatasetLists ==
    {ds \in UNION {[1..k -> {LocalTable(n) : n \in DatasetNames}] : k \in 0..MaxDatasets} :
        \A i, j \in DOMAIN ds : ds[i].name = ds[j].name => i = j}

\* the stores an addDataSourceConnection leaves, from the initial or the
\* cleared state
StoresAfterAdd ==
    {addDataSourceConnection(s, connections) :
        s \in {initialState, clearDataSourceConnections},
        connections \in ConnectionLists(MaxConnections)}

InitTables ==
    /\ store \in StoresAfterAdd
    /\ last = NoOp
    /\ datasets \in DatasetLists
    /\ tablesOut = NotRead
    /\ PanelIdle /\ SelectIdle /\ GridIdle
    /\ UtilIdle

\* get(allTablesAtom)
ReadAllTables ==
    /\ tablesOut' = allTablesAtom(datasets, store.connectionsMap)
    /\ UNCHANGED <<reducerVars, datasets, panelVars, selectVars, gridVars, utilVars>>

NextTables == ReadAllTables

SpecTables == InitTables /\ [][NextTables]_vars

----------------------------------------------------------------------------
(* Reading sortedTablesAtom: the panel lists the local tables in the order *)
(* of the cells that declare their variables                               *)

\* cells of the notebook and the variables that declare tables
CellIds == {"c1", "c2"}
TableVariables == {"a", "b"}

\* a table of datasetTablesAtom with the variable it was made from; "" is a
\* missing variable_name
VariableTable(name, variable_name) ==
    [name |-> name, source_type |-> "local", variable_name |-> variable_name]

\* Array.prototype.indexOf, counting from 0; -1 when absent
IndexOf(list, x) ==
    IF \E i \in DOMAIN list : list[i] = x
    THEN (CHOOSE i \in DOMAIN list :
              list[i] = x /\ \A j \in DOMAIN list : list[j] = x => i <= j) - 1
    ELSE -1

\* a variant that keys a table without a variable like one whose variable
\* is unknown
SortKeyMissingAsUnknown(table, vs, order) ==
    IF table.variable_name = "" \/ table.variable_name \notin DOMAIN vs THEN 0
    ELSE IF Len(vs[table.variable_name].declaredBy) = 0 THEN 0
    ELSE LET index == IndexOf(order, vs[table.variable_name].declaredBy[1])
         IN  IF index = -1 THEN 0 ELSE index

\* the iteratee of sortBy; vs maps a variable's name to the variable
SortKey(table, vs, order) ==
    IF table.variable_name = "" THEN -1
    ELSE IF table.variable_name \notin DOMAIN vs THEN 0
    ELSE IF Len(vs[table.variable_name].declaredBy) = 0 THEN 0
    ELSE LET index == IndexOf(order, vs[table.variable_name].declaredBy[1])
         IN  IF index = -1 THEN 0 ELSE index

\* one step of a stable ascending sort: table goes behind every table whose
\* key is not larger
InsertByKey(sorted, table, vs, order) ==
    LET k == SortKey(table, vs, order)
        before == SelectSeq(sorted, LAMBDA t : SortKey(t, vs, order) <= k)
        after == SelectSeq(sorted, LAMBDA t : SortKey(t, vs, order) > k)
    IN  before \o <<table>> \o after

\* lodash sortBy(tables, iteratee): a stable sort, ascending by key
RECURSIVE SortBy(_, _, _)
SortBy(tables, vs, order) ==
    IF tables = <<>> THEN <<>>
    ELSE LET n == Len(tables)
         IN  InsertByKey(SortBy(SubSeq(tables, 1, n - 1), vs, order), tables[n], vs, order)

sortedTablesAtom(tables, vs, order) ==
    [read |-> TRUE, tables |-> SortBy(tables, vs, order)]

\* datasetTablesAtom: tables with distinct names, made from any variable or none
VariableTableLists ==
    {ts \in UNION {[1..k -> {VariableTable(n, v) : n \in DatasetNames,
                                                  v \in {""} \cup TableVariables}] :
                      k \in 0..MaxDatasets} :
        \A i, j \in DOMAIN ts : ts[i].name = ts[j].name => i = j}

\* variablesAtom: some of the variables exist, each declared by one cell
VariableStates ==
    UNION {[vs -> {[declaredBy |-> <<c>>] : c \in CellIds}] : vs \in SUBSET TableVariables}

\* cellIdsAtom: the cells in the notebook, in any order
CellOrders ==
    {order \in UNION {[1..k -> CellIds] : k \in 0..Cardinality(CellIds)} :
        \A i, j \in DOMAIN order : order[i] = order[j] => i = j}

InitSorted ==
    /\ datasets \in VariableTableLists
    /\ variables \in VariableStates
    /\ cellIds \in CellOrders
    /\ sortedOut = NotSorted
    /\ tablesOut = NotRead
    /\ store = initialState /\ last = NoOp
    /\ PanelIdle /\ SelectIdle /\ GridIdle
    /\ AddIdle /\ HtmlIdle /\ DateIdle /\ ClickIdle /\ TreeIdle

\* get(sortedTablesAtom)
ReadSortedTables ==
    /\ ~sortedOut.read
    /\ sortedOut' = sortedTablesAtom(datasets, variables, cellIds)
    /\ UNCHANGED <<variables, cellIds>>

NextSorted ==
    /\ ReadSortedTables
    /\ UNCHANGED <<reducerVars, tablesVars, panelVars, selectVars, gridVars, addVars, htmlVars, dateVars, clickVars, treeVars>>

SpecSorted == InitSorted /\ [][NextSorted]_vars

----------------------------------------------------------------------------
(* The tree of a connection in the data-sources panel: databases, their    *)
(* schemas, the schemas' tables and the tables' columns. Every node keeps  *)
(* its isExpanded in its own component, which lives while it is mounted.   *)

\* the nodes, each named by its path from the database down
TreeNodes ==
    {<<"d">>}
        \cup {<<"d", sc>> : sc \in {"s", "r"}}
        \cup {<<"d", sc, "t">> : sc \in {"s", "r"}}
        \cup {<<"d", sc, "t", "x">> : sc \in {"s", "r"}}

\* the nodes above a node
Ancestors(n) == {SubSeq(n, 1, k) : k \in 1..(Len(n) - 1)}

\* a variant that keeps every node mounted that was mounted before
MountedOrKept(flags) ==
    {n \in TreeNodes : \A a \in Ancestors(n) : a \in DOMAIN flags /\ flags[a]}
        \cup DOMAIN flags

\* {isExpanded && children}: a node is mounted while every node above it
\* is mounted and expanded
Mounted(flags) ==
    {n \in TreeNodes : \A a \in Ancestors(n) : a \in DOMAIN flags /\ flags[a]}

\* the render after a change of the flags: a mounted component keeps its
\* state, a newly mounted one starts with useState(false)
RenderTree(flags) ==
    [n \in Mounted(flags) |-> IF n \in DOMAIN flags THEN flags[n] ELSE FALSE]

InitTree ==
    /\ treeExpanded = RenderTree(<<>>)
    /\ lastTreeSelect = NoTreeSelect
    /\ prevTreeSelect = NoTreeSelect
    /\ store = initialState /\ last = NoOp
    /\ TablesIdle /\ PanelIdle /\ SelectIdle /\ GridIdle
    /\ SortIdle /\ AddIdle /\ HtmlIdle /\ DateIdle /\ ClickIdle

\* onSelect={() => setIsExpanded(!isExpanded)} of the node's CommandItem
SelectNode(n) ==
    /\ treeExpanded' = RenderTree([treeExpanded EXCEPT ![n] = ~treeExpanded[n]])
    /\ lastTreeSelect' = [selected |-> TRUE, node |-> n, pre |-> treeExpanded]
    /\ prevTreeSelect' = lastTreeSelect

\* DatabaseComponent onSelect
SelectDatabase == \E n \in DOMAIN treeExpanded : Len(n) = 1 /\ SelectNode(n)

\* SchemaComponent onSelect
SelectSchema == \E n \in DOMAIN treeExpanded : Len(n) = 2 /\ SelectNode(n)

\* DatasetTableItem onSelect, for a table of a schema
SelectSchemaTable == \E n \in DOMAIN treeExpanded : Len(n) = 3 /\ SelectNode(n)

\* DatasetColumnItem onSelect, for a column of such a table
SelectTableColumn == \E n \in DOMAIN treeExpanded : Len(n) = 4 /\ SelectNode(n)

NextTree ==
    /\ \/ SelectDatabase
       \/ SelectSchema
       \/ SelectSchemaTable
       \/ SelectTableColumn
    /\ UNCHANGED <<reducerVars, tablesVars, panelVars, selectVars, gridVars,
                   sortVars, addVars, htmlVars, dateVars, clickVars>>

SpecTree == InitTree /\ [][NextTree]_vars

----------------------------------------------------------------------------
(* The add button of a table: handleAddTable writes a cell that shows the  *)
(* table                                                                   *)

\* the tables that carry an add button: local and duckdb tables of the
\* Python list and the tables of a connection
AddableTables ==
    {[name |-> n, source_type |-> st, engine |-> ""] :
        n \in DatasetNames, st \in {"local", "duckdb"}}
    \cup {[name |-> n, source_type |-> "connection", engine |-> en] :
              n \in DatasetNames, en \in EngineVariables}

\* a variant whose connection query names no engine
TableCodeNoEngine(table) ==
    IF table.source_type = "local" THEN "mo.ui.table(" \o table.name \o ")"
    ELSE IF table.source_type \in {"duckdb", "connection"}
    THEN "_df = mo.sql(f\"SELECT * FROM " \o table.name \o " LIMIT 100\")"
    ELSE ""

\* the switch on table.source_type; an unknown type is logged and leaves ""
TableCode(table) ==
    IF table.source_type = "local" THEN "mo.ui.table(" \o table.name \o ")"
    ELSE IF table.source_type = "duckdb"
    THEN "_df = mo.sql(f\"SELECT * FROM " \o table.name \o " LIMIT 100\")"
    ELSE IF table.source_type = "connection"
    THEN "_df = mo.sql(f\"SELECT * FROM " \o table.name \o " LIMIT 100\", engine="
             \o table.engine \o ")"
    ELSE ""

\* lastFocusedCellId ?? "__end__"
FocusedOrEnd(cellId) == IF cellId.defined THEN cellId.value ELSE "__end__"

\* the call maybeAddMarimoImport(autoInstantiate, createNewCell, lastFocusedCellId)
ImportCheckCall(auto, cellId) ==
    [fn |-> "maybeAddMarimoImport", autoInstantiate |-> auto, fromCellId |-> cellId]

\* the call createNewCell({code, before, cellId})
CreateNewCellCall(code, before, cellId) ==
    [fn |-> "createNewCell", code |-> code, before |-> before, cellId |-> cellId]

InitAddTable ==
    /\ autoInstantiate \in BOOLEAN
    /\ lastFocusedCellId = Undefined
    /\ addTableClick = Undefined
    /\ addTableCalls = <<>>
    /\ store = initialState /\ last = NoOp
    /\ TablesIdle /\ PanelIdle /\ SelectIdle /\ GridIdle
    /\ SortIdle /\ HtmlIdle /\ DateIdle /\ ClickIdle /\ TreeIdle

\* a cell of the notebook takes the focus
FocusCell ==
    \E c \in CellIds :
        /\ lastFocusedCellId' = Defined(c)
        /\ UNCHANGED <<autoInstantiate, addTableClick, addTableCalls>>

\* a click on the add button of a table
HandleAddTable ==
    \E table \in AddableTables :
        /\ addTableCalls' =
               << ImportCheckCall(autoInstantiate, lastFocusedCellId),
                  CreateNewCellCall(TableCode(table), FALSE, FocusedOrEnd(lastFocusedCellId)) >>
        /\ addTableClick' = Defined([table |-> table, focused |-> lastFocusedCellId])
        /\ UNCHANGED <<autoInstantiate, lastFocusedCellId>>

NextAddTable ==
    /\ \/ FocusCell
       \/ HandleAddTable
    /\ UNCHANGED <<reducerVars, tablesVars, panelVars, selectVars, gridVars, sortVars, htmlVars, dateVars, clickVars, treeVars>>

SpecAddTable == InitAddTable /\ [][NextAddTable]_vars

----------------------------------------------------------------------------
(* unwrapMarimoChatHTML: the markup of a chat message is parsed into React *)
(* nodes and the content of its two wrapping spans is rendered back to     *)
(* markup. A markup string is held as the list of nodes it denotes, with   *)
(* each text as the pieces written in the string.                          *)

\* most nodes in a row in a content
MaxNodes == 2

\* pieces of text as they are written in markup: a bare ampersand, the
\* entity of an ampersand and a bare less-than sign, each before a space
SpecialPieces == {"& ", "&amp; ", "< "}

TextNode(pieces) ==
    [kind |-> "text", pieces |-> pieces, tag |-> "", class |-> "", children |-> <<>>]

ElementNode(tag, class, children) ==
    [kind |-> "element", pieces |-> <<>>, tag |-> tag, class |-> class, children |-> children]

\* texts of a message
TextNodes ==
    {TextNode(<<"Echo">>)} \cup {TextNode(<<"Hello ", p, "World">>) : p \in SpecialPieces}

\* the nodes of a content: texts, a line break, code and nested elements
ContentNodes ==
    TextNodes
        \cup {ElementNode("br", "", <<>>)}
        \cup {ElementNode("code", "", <<t>>) : t \in TextNodes}
        \cup {ElementNode("div", "",
                  << ElementNode("span", "",
                         << TextNode(<<"Echo">>),
                            ElementNode("b", "", <<TextNode(<<"Echo">>)>>) >>) >>)}

\* the contents: markup denotes no two texts in a row
Contents ==
    {c \in UNION {[1..k -> ContentNodes] : k \in 0..MaxNodes} :
        \A i \in DOMAIN c : (i > 1 /\ c[i].kind = "text") => c[i - 1].kind # "text"}

\* the backend's wrapper: the markdown span around the paragraph span
MarimoWrapper(content) ==
    << ElementNode("span", "markdown prose dark:prose-invert",
           << ElementNode("span", "paragraph", content) >>) >>

RECURSIVE Concat(_)
Concat(strings) ==
    IF strings = <<>> THEN "" ELSE Head(strings) \o Concat(Tail(strings))

\* the string a list of nodes is written as
RECURSIVE MarkupOf(_)
MarkupOf(nodes) ==
    Concat([i \in DOMAIN nodes |->
        IF nodes[i].kind = "text" THEN Concat(nodes[i].pieces)
        ELSE IF nodes[i].tag = "br" THEN "<br/>"
        ELSE "<" \o nodes[i].tag
                 \o (IF nodes[i].class = "" THEN "" ELSE " class=\"" \o nodes[i].class \o "\"")
                 \o ">" \o MarkupOf(nodes[i].children) \o "</" \o nodes[i].tag \o ">"])

\* React values: undefined, a string, an element, an array
ReactUndefined == [kind |-> "undefined"]
ReactString(pieces) == [kind |-> "string", pieces |-> pieces]
ReactElement(type, className, children) ==
    [kind |-> "element", type |-> type, className |-> className, children |-> children]
ReactArray(items) == [kind |-> "array", items |-> items]

\* the parser decodes the entities of a text; a bare ampersand or less-than
\* sign before a space is text as it stands
DecodeEntities(piece) == IF piece = "&amp; " THEN "& " ELSE piece

\* html-react-parser: a text becomes a string, an element a React element
\* whose children are undefined, the one child or the array of the children;
\* a list of one node comes back as that node, any other as an array
RECURSIVE DomToReact(_)
DomToReact(nodes) ==
    LET elements ==
            [i \in DOMAIN nodes |->
                IF nodes[i].kind = "text"
                THEN ReactString([j \in DOMAIN nodes[i].pieces |->
                                     DecodeEntities(nodes[i].pieces[j])])
                ELSE ReactElement(nodes[i].tag, nodes[i].class,
                                  IF nodes[i].children = <<>> THEN ReactUndefined
                                  ELSE DomToReact(nodes[i].children))]
    IN  IF Len(elements) = 1 THEN elements[1] ELSE ReactArray(elements)

\* parse(html)
Parse(nodes) == DomToReact(nodes)

\* React.isValidElement
IsValidElement(value) == value.kind = "element"

\* React escapes the text it renders
EscapeTextForBrowser(piece) ==
    IF piece = "& " THEN "&amp; "
    ELSE IF piece = "< " THEN "&lt; "
    ELSE piece

\* ReactDOMServer.renderToStaticMarkup
RECURSIVE RenderToStaticMarkup(_)
RenderToStaticMarkup(value) ==
    IF value.kind = "undefined" THEN ""
    ELSE IF value.kind = "string"
    THEN Concat([j \in DOMAIN value.pieces |-> EscapeTextForBrowser(value.pieces[j])])
    ELSE IF value.kind = "array"
    THEN Concat([i \in DOMAIN value.items |-> RenderToStaticMarkup(value.items[i])])
    ELSE IF value.type = "br" THEN "<br/>"
    ELSE "<" \o value.type
             \o (IF value.className = "" THEN "" ELSE " class=\"" \o value.className \o "\"")
             \o ">" \o RenderToStaticMarkup(value.children) \o "</" \o value.type \o ">"

\* how a call ends: it returns null, returns a string, or throws
ReturnsNull == [called |-> TRUE, threw |-> FALSE, isNull |-> TRUE, value |-> ""]
Returns(string) == [called |-> TRUE, threw |-> FALSE, isNull |-> FALSE, value |-> string]
Throws == [called |-> TRUE, threw |-> TRUE, isNull |-> FALSE, value |-> ""]

\* the body of the try block; where names the library call that raises
TryBlock(nodes, where) ==
    IF where = "parse" THEN Throws
    ELSE LET parsed == Parse(nodes)
         IN  IF ~IsValidElement(parsed) THEN ReturnsNull
             ELSE LET wrapper == parsed.children
                  IN  IF wrapper.kind = "undefined" \/ ~IsValidElement(wrapper) THEN ReturnsNull
                      ELSE IF where = "render" THEN Throws
                      ELSE Returns(RenderToStaticMarkup(wrapper.children))

\* a variant without the catch
Uncaught(outcome) == outcome

\* catch { return null }
Catch(outcome) == IF outcome.threw THEN ReturnsNull ELSE outcome

unwrapMarimoChatHTML(nodes, where) == Catch(TryBlock(nodes, where))

\* markup that is not a wrapped content: a content by itself, a content in
\* the paragraph span alone, and an element without children
OtherMarkup ==
    Contents
        \cup {<<ElementNode("span", "paragraph", c)>> : c \in Contents}
        \cup {<<ElementNode("invalid", "", <<>>)>>}

InitUnwrap ==
    /\ \/ \E c \in Contents : html = MarimoWrapper(c) /\ chatContent = Defined(c)
       \/ html \in OtherMarkup /\ chatContent = Undefined
    /\ raises \in {"none", "parse", "render"}
    /\ unwrapped = NotCalled
    /\ store = initialState /\ last = NoOp
    /\ TablesIdle /\ PanelIdle /\ SelectIdle /\ GridIdle
    /\ SortIdle /\ AddIdle /\ DateIdle /\ ClickIdle /\ TreeIdle

\* unwrapMarimoChatHTML(html)
Unwrap ==
    /\ ~unwrapped.called
    /\ unwrapped' = unwrapMarimoChatHTML(html, raises)
    /\ UNCHANGED <<html, chatContent, raises>>

NextUnwrap ==
    /\ Unwrap
    /\ UNCHANGED <<reducerVars, tablesVars, panelVars, selectVars, gridVars, sortVars, addVars, dateVars, clickVars, treeVars>>

SpecUnwrap == InitUnwrap /\ [][NextUnwrap]_vars

----------------------------------------------------------------------------
(* isDate, as the vega tests import it from date-fns                       *)

\* a string written as a date, a time, a fraction of a second and a zone
DateString(date, time, fraction, zone) ==
    [type |-> "string", text |-> date \o time \o fraction \o zone,
     date |-> date, time |-> time, fraction |-> fraction, zone |-> zone]

\* a string that is not written that way
OtherString(text) ==
    [type |-> "string", text |-> text, date |-> "", time |-> "", fraction |-> "", zone |-> ""]

\* the strings handed to isDate
DateStrings ==
    {DateString(d, t, f, z) :
        d \in {"2024-01-01", "2024-06-30"},
        t \in {"", "T00:00:00", "T23:59:59"},
        f \in {"", ".000", "."},
        z \in {"", "Z", "+00:00", "-00:00", "+00", "-00", "Z+00:00"}}
    \cup {OtherString(text) : text \in {"invalid-date", "string", "time-1"}}

\* the values handed to isDate: Date objects, other objects and primitives
DateValues ==
    {[type |-> "Date", text |-> text] : text \in {"now", "2024-01-01T00:00:00Z"}}
        \cup {[type |-> t] : t \in {"object", "array", "null", "undefined", "number"}}
        \cup DateStrings

\* date-fns isDate: the value is an instance of Date
isDate(value) == value.type = "Date"

InitDate ==
    /\ dateValue \in DateValues
    /\ isDateResult = NotCalled
    /\ store = initialState /\ last = NoOp
    /\ TablesIdle /\ PanelIdle /\ SelectIdle /\ GridIdle
    /\ SortIdle /\ AddIdle /\ HtmlIdle /\ ClickIdle /\ TreeIdle

\* isDate(value)
CallIsDate ==
    /\ ~isDateResult.called
    /\ isDateResult' = [called |-> TRUE, result |-> isDate(dateValue)]
    /\ UNCHANGED dateValue

NextDate ==
    /\ CallIsDate
    /\ UNCHANGED <<reducerVars, tablesVars, panelVars, selectVars, gridVars,
                   sortVars, addVars, htmlVars, clickVars, treeVars>>

SpecDate == InitDate /\ [][NextDate]_vars

----------------------------------------------------------------------------
(* The data-sources panel: the search input, the tables of the Python     *)
(* list and their columns' previews                                       *)

\* what the user types into the search input
SearchValues == {"", "a", "ab"}

\* the local tables listed under "Python", each with its columns
PanelTables == {"t", "u"}
PanelColumns == {"ab", "x"}

\* cmdk shows an item while the search is empty or matches the item's
\* value `${table.name}.${column.name}`; of the columns here "a" and "ab"
\* match "ab" and nothing matches "x"
ColumnItemShown(search, column) == search = "" \/ column = "ab"

\* the columns whose DatasetColumnItem is mounted: those of expanded tables
MountedColumns(expanded) == {tc \in PanelTables \X PanelColumns : expanded[tc[1]]}

\* closeAllColumnsAtom holds a boolean and starts false
closeAllColumnsInitial == FALSE

NoPanelEvent == [event |-> "none", value |-> ""]

InitPanel ==
    /\ searchValue = ""
    /\ closeAllColumns = closeAllColumnsInitial
    /\ tableExpanded = [t \in PanelTables |-> FALSE]
    /\ columnExpanded = [tc \in {} |-> FALSE]
    /\ panelLast = NoPanelEvent
    /\ store = initialState /\ last = NoOp
    /\ TablesIdle /\ SelectIdle /\ GridIdle
    /\ UtilIdle

\* useEffect(() => { if (closeAllColumns) setIsExpanded(false) },
\* [closeAllColumns]) of every mounted column: it runs again only when the
\* value of closeAllColumns has changed
EffectCloseAllColumns(before, after, expanded) ==
    IF after # before /\ after
    THEN [tc \in DOMAIN expanded |-> FALSE]
    ELSE expanded

\* CommandInput onValueChange: closeAllColumns(true) when the value is not
\* empty, then setSearchValue(value); the columns' effects follow
OnValueChange ==
    \E value \in SearchValues :
        /\ value # searchValue
        /\ closeAllColumns' = IF value # "" THEN TRUE ELSE closeAllColumns
        /\ searchValue' = value
        /\ columnExpanded' =
               EffectCloseAllColumns(closeAllColumns, closeAllColumns', columnExpanded)
        /\ panelLast' = [event |-> "onValueChange", value |-> value]
        /\ UNCHANGED tableExpanded

\* the clear button, rendered while the search has text: setSearchValue("")
ClearSearch ==
    /\ searchValue # ""
    /\ searchValue' = ""
    /\ panelLast' = [event |-> "clearSearch", value |-> ""]
    /\ UNCHANGED <<closeAllColumns, tableExpanded, columnExpanded>>

\* DatasetTableItem onSelect: setIsExpanded(!isExpanded); the columns are
\* rendered only while the table is expanded, and mount collapsed
SelectTable ==
    \E t \in PanelTables :
        /\ tableExpanded' = [tableExpanded EXCEPT ![t] = ~tableExpanded[t]]
        /\ columnExpanded' =
               [tc \in MountedColumns(tableExpanded') |->
                   IF tc \in DOMAIN columnExpanded THEN columnExpanded[tc] ELSE FALSE]
        /\ panelLast' = [event |-> "selectTable", value |-> t]
        /\ UNCHANGED <<searchValue, closeAllColumns>>

\* DatasetColumnItem onSelect: setIsExpanded(!isExpanded)
SelectColumn ==
    \E tc \in DOMAIN columnExpanded :
        /\ ColumnItemShown(searchValue, tc[2])
        /\ columnExpanded' = [columnExpanded EXCEPT ![tc] = ~columnExpanded[tc]]
        /\ panelLast' = [event |-> "selectColumn", value |-> tc[2]]
        /\ UNCHANGED <<searchValue, closeAllColumns, tableExpanded>>

NextPanel ==
    /\ \/ OnValueChange
       \/ ClearSearch
       \/ SelectTable
       \/ SelectColumn
    /\ UNCHANGED <<reducerVars, tablesVars, selectVars, gridVars, utilVars>>

SpecPanel == InitPanel /\ [][NextPanel]_vars

----------------------------------------------------------------------------
(* The SQL engine selector of the language panel *)

\* documents of the editor
Docs == {<<>>, <<"S">>, <<"S", "Q">>}

\* names normalizeName yields for what the user typed
NormalizedNames == {"_df", "out"}

\* a variant that inserts the text at the end of the document
TriggerUpdateAppends(d) == [from |-> Len(d), to |-> Len(d), insert |-> d]

\* the changes of triggerUpdate: the whole document, replaced by its text
TriggerUpdateChanges(d) == [from |-> 0, to |-> Len(d), insert |-> d]

\* view.dispatch({changes}): the text between from and to gives way to insert
Dispatch(d, changes) ==
    SubSeq(d, 1, changes.from) \o changes.insert \o SubSeq(d, changes.to + 1, Len(d))

InitSelect ==
    /\ store = initialState
    /\ last = NoOp
    /\ adapterEngine \in ConnectionNames
    /\ selectedEngine = Undefined
    /\ selectMounted = FALSE
    /\ doc \in Docs
    /\ dataframeName = "_df"
    /\ showOutput = TRUE
    /\ panelEvent = NoLanguagePanelEvent
    /\ TablesIdle /\ PanelIdle /\ GridIdle
    /\ UtilIdle

\* connectionsMap.get(name): the connection, or undefined
ConnectionOrUndefined(connectionsMap, name) ==
    IF MapHas(connectionsMap, name) THEN Defined(MapGet(connectionsMap, name)) ELSE Undefined

\* the first render: useState(connectionsMap.get(languageAdapter.engine))
MountSelect ==
    /\ ~selectMounted
    /\ selectMounted' = TRUE
    /\ selectedEngine' = ConnectionOrUndefined(store.connectionsMap, adapterEngine)
    /\ UNCHANGED <<adapterEngine, doc, dataframeName, showOutput, panelEvent, reducerVars>>

\* engineIsDisconnected: selectedEngine && connectionsMap.get(selectedEngine.name) === undefined
engineIsDisconnected ==
    selectedEngine.defined /\ ~MapHas(store.connectionsMap, selectedEngine.value.name)

\* the values of the SelectItems: the disconnected engine, then the map's entries
SelectItems ==
    (IF engineIsDisconnected THEN {selectedEngine.value.name} ELSE {})
        \cup {store.connectionsMap[i].value.name : i \in DOMAIN store.connectionsMap}

\* handleSelectEngine(value): only an engine of the map is selected, and
\* onChange, which is triggerUpdate, is called for it
HandleSelectEngine ==
    \E value \in SelectItems :
        /\ selectMounted
        /\ LET nextEngine == ConnectionOrUndefined(store.connectionsMap, value)
           IN  IF nextEngine.defined
               THEN /\ adapterEngine' = nextEngine.value.name
                    /\ selectedEngine' = nextEngine
                    /\ doc' = Dispatch(doc, TriggerUpdateChanges(doc))
                    /\ panelEvent' = [event |-> "selectEngine", docBefore |-> doc,
                                      dispatched |-> <<TriggerUpdateChanges(doc)>>]
               ELSE /\ UNCHANGED <<adapterEngine, selectedEngine, doc>>
                    /\ panelEvent' = [event |-> "selectNothing", docBefore |-> doc,
                                      dispatched |-> <<>>]
        /\ UNCHANGED <<selectMounted, dataframeName, showOutput, reducerVars>>

\* onBlur of the output-variable input: the name is normalized and stored
BlurOutputVariable ==
    \E name \in NormalizedNames :
        /\ dataframeName' = name
        /\ doc' = Dispatch(doc, TriggerUpdateChanges(doc))
        /\ panelEvent' = [event |-> "blurOutputVariable", docBefore |-> doc,
                          dispatched |-> <<TriggerUpdateChanges(doc)>>]
        /\ UNCHANGED <<adapterEngine, selectedEngine, selectMounted, showOutput, reducerVars>>

\* onChange of the hide-output checkbox, which shows !showOutput
ToggleHideOutput ==
    \E checked \in {showOutput} :
        /\ showOutput' = ~checked
        /\ doc' = Dispatch(doc, TriggerUpdateChanges(doc))
        /\ panelEvent' = [event |-> "toggleHideOutput", docBefore |-> doc,
                          dispatched |-> <<TriggerUpdateChanges(doc)>>]
        /\ UNCHANGED <<adapterEngine, selectedEngine, selectMounted, dataframeName, reducerVars>>

\* the connections change under the selector (useAtomValue(dataConnectionsMapAtom))
ConnectionsChange ==
    /\ \/ \E connections \in ConnectionLists(MaxConnections) :
              store' = addDataSourceConnection(store, connections)
       \/ \E variableNames \in SUBSET VariableNames :
              store' = filterDataSourcesFromVariables(store, variableNames)
       \/ store' = clearDataSourceConnections
       \/ \E connectionName \in ConnectionNames :
              store' = removeDataSourceConnection(store, connectionName)
    /\ UNCHANGED <<last, selectVars>>

NextSelect ==
    /\ \/ MountSelect
       \/ HandleSelectEngine
       \/ BlurOutputVariable
       \/ ToggleHideOutput
       \/ ConnectionsChange
    /\ UNCHANGED <<tablesVars, panelVars, gridVars, utilVars>>

SpecSelect == InitSelect /\ [][NextSelect]_vars

----------------------------------------------------------------------------
(* The DataTable's row ids: getRowId of the data-table that prefers a     *)
(* stable row id, and of the virtualized data-table                        *)

INDEX_COLUMN_NAME == "_marimo_row_id"

\* JavaScript values of a cell, and String(value)
Number(n) == [type |-> "number", n |-> n, s |-> ""]
Text(s) == [type |-> "string", n |-> 0, s |-> s]
String(v) == IF v.type = "number" THEN ToString(v.n) ELSE v.s

\* a row: null, or an object with its fields
NullRow == [isObject |-> FALSE, fields |-> <<>>]
ObjectRow(fields) == [isObject |-> TRUE, fields |-> fields]

Rows ==
    {NullRow, ObjectRow([c \in {"x"} |-> Number(1)])}
        \cup {ObjectRow([c \in {"x", INDEX_COLUMN_NAME} |->
                            IF c = "x" THEN Number(1) ELSE id]) :
                 id \in {Number(0), Number(7), Text("k")}}

\* row && typeof row === "object" && INDEX_COLUMN_NAME in row
HasStableId(row) == row.isObject /\ INDEX_COLUMN_NAME \in DOMAIN row.fields

PaginationStates == [pageIndex : 0..MaxPageIndex, pageSize : 1..MaxPageSize]

\* the props that bear on the row ids; under manual (server-side) pagination
\* data is one page
DataTableProps ==
    {p \in [rendered : {TRUE},
            data : UNION {[1..k -> Rows] : k \in 0..MaxRows},
            paginationState : {Undefined} \cup {Defined(ps) : ps \in PaginationStates},
            manualPagination : BOOLEAN,
            pagination : BOOLEAN,
            setPaginationState : BOOLEAN] :
        (p.manualPagination /\ p.paginationState.defined)
            => Len(p.data) <= p.paginationState.value.pageSize}

\* the offset added to idx
RowOffset(p) ==
    IF p.manualPagination
    THEN p.paginationState.value.pageIndex * p.paginationState.value.pageSize
    ELSE 0

\* a variant that adds the page index alone
getRowIdVirtualPageOnly(row, idx, p) ==
    IF ~p.paginationState.defined THEN ToString(idx)
    ELSE ToString(idx + (IF p.manualPagination THEN p.paginationState.value.pageIndex ELSE 0))

\* getRowId of the virtualized data-table: (_row, idx) => ...
getRowIdVirtual(row, idx, p) ==
    IF ~p.paginationState.defined THEN ToString(idx)
    ELSE ToString(idx + RowOffset(p))

\* a variant that takes the stable id only without a pagination state
getRowIdStableLast(row, idx, p) ==
    IF ~p.paginationState.defined
    THEN IF HasStableId(row) THEN String(row.fields[INDEX_COLUMN_NAME]) ELSE ToString(idx)
    ELSE ToString(idx + RowOffset(p))

\* getRowId of the data-table: (row, idx) => ..., preferring the stable id
getRowId(row, idx, p) ==
    IF HasStableId(row) THEN String(row.fields[INDEX_COLUMN_NAME])
    ELSE IF ~p.paginationState.defined THEN ToString(idx)
    ELSE ToString(idx + RowOffset(p))

\* the ids useReactTable gives the rows of data: getRowId is passed only
\* with setPaginationState, and the table's own id is the row's index
RowIds(p) ==
    [i \in DOMAIN p.data |->
        IF p.setPaginationState THEN getRowId(p.data[i], i - 1, p) ELSE ToString(i - 1)]

\* the same, in the virtualized data-table
RowIdsVirtual(p) ==
    [i \in DOMAIN p.data |->
        IF p.setPaginationState THEN getRowIdVirtual(p.data[i], i - 1, p) ELSE ToString(i - 1)]

\* a variant that shows all rows whenever no pagination state is given
StatePaginationNeverOwn(p) ==
    IF p.paginationState.defined THEN Defined(p.paginationState.value)
    ELSE Defined([pageIndex |-> 0, pageSize |-> Len(p.data)])

\* the pagination key of useReactTable's state; Undefined stands for a state
\* object without the key, which leaves the pagination to the table
StatePagination(p) ==
    IF p.paginationState.defined THEN Defined(p.paginationState.value)
    ELSE IF p.pagination /\ ~p.paginationState.defined THEN Undefined
    ELSE Defined([pageIndex |-> 0, pageSize |-> Len(p.data)])

\* the DataTable is about to be rendered with any of the props
InitGrid ==
    /\ props \in {[p EXCEPT !.rendered = FALSE] : p \in DataTableProps}
    /\ rowIds = <<>>
    /\ rowIdsVirtual = <<>>
    /\ statePagination = Undefined
    /\ store = initialState /\ last = NoOp
    /\ TablesIdle /\ PanelIdle /\ SelectIdle
    /\ UtilIdle

\* DataTableInternal renders: useReactTable names the rows of data
RenderDataTable ==
    /\ ~props.rendered
    /\ props' = [props EXCEPT !.rendered = TRUE]
    /\ rowIds' = RowIds(props)
    /\ rowIdsVirtual' = RowIdsVirtual(props)
    /\ statePagination' = StatePagination(props)

NextGrid ==
    /\ RenderDataTable
    /\ UNCHANGED <<reducerVars, tablesVars, panelVars, selectVars, utilVars>>

SpecGrid == InitGrid /\ [][NextGrid]_vars

----------------------------------------------------------------------------
(* Clicks on the rows of the virtualized DataTable. The row selection is   *)
(* the parent's state: the table reads it from state.rowSelection and      *)
(* hands every change to onRowSelectionChange.                             *)

\* a variant that holds as soon as a row is selected or none is
IsAnyOrNoRowSelected(selection, p) == Cardinality(selection) < Len(p.data)

\* table.getIsSomeRowsSelected(): some of the rows are selected, not all
getIsSomeRowsSelected(selection, p) ==
    /\ Cardinality(selection) > 0
    /\ Cardinality(selection) < Len(p.data)

\* row.toggleSelected(): the row's id leaves the selection or joins it
toggleSelected(selection, id) ==
    IF id \in selection THEN selection \ {id} ELSE selection \cup {id}

\* the props of a table without pagination
UnpagedProps ==
    {p \in DataTableProps :
        /\ ~p.paginationState.defined
        /\ ~p.manualPagination /\ ~p.pagination /\ ~p.setPaginationState}

\* the table is about to be rendered, with any of its rows selected
InitRowClick ==
    /\ props \in {[p EXCEPT !.rendered = FALSE] : p \in UnpagedProps}
    /\ rowIds = <<>>
    /\ rowIdsVirtual = <<>>
    /\ statePagination = Undefined
    /\ rowSelection \in SUBSET Range(RowIdsVirtual(props))
    /\ onRowSelectionChange \in BOOLEAN
    /\ lastRowClick = NoRowClick
    /\ store = initialState /\ last = NoOp
    /\ TablesIdle /\ PanelIdle /\ SelectIdle
    /\ SortIdle /\ AddIdle /\ HtmlIdle /\ DateIdle /\ TreeIdle

\* onClick of a TableRow
ClickRow ==
    \E i \in DOMAIN rowIdsVirtual :
        /\ props.rendered
        /\ rowSelection' =
               IF getIsSomeRowsSelected(rowSelection, props) /\ onRowSelectionChange
               THEN toggleSelected(rowSelection, rowIdsVirtual[i])
               ELSE rowSelection
        /\ lastRowClick' = [clicked |-> TRUE, id |-> rowIdsVirtual[i], pre |-> rowSelection]
        /\ UNCHANGED onRowSelectionChange

NextRowClick ==
    /\ \/ RenderDataTable /\ UNCHANGED clickVars
       \/ ClickRow /\ UNCHANGED gridVars
    /\ UNCHANGED <<reducerVars, tablesVars, panelVars, selectVars,
                   sortVars, addVars, htmlVars, dateVars, treeVars>>

SpecRowClick == InitRowClick /\ [][NextRowClick]_vars

----------------------------------------------------------------------------
(* Claims about the reducer *)

\* the names carried by a connection list
ListNames(connections) == {connections[i].name : i \in DOMAIN connections}

\* the last connection of the list that carries name n
LastWithName(connections, n) ==
    LET last_i == CHOOSE i \in DOMAIN connections :
                     /\ connections[i].name = n
                     /\ \A j \in DOMAIN connections : connections[j].name = n => j <= i
    IN  connections[last_i]

\* C1: after addDataSourceConnection with a non-empty list, the keys of
\* connectionsMap are the prior keys united with the names in the list, and
\* every name of the list maps to the last connection of the list with
\* that name.
C1_AddUpsertsByName ==
    (last.op = "addDataSourceConnection" /\ Len(last.connections) > 0) =>
        /\ MapKeys(store.connectionsMap) =
               MapKeys(last.pre.connectionsMap) \cup ListNames(last.connections)
        /\ \A n \in ListNames(last.connections) :
               MapGet(store.connectionsMap, n) = LastWithName(last.connections, n)

\* an add whose list names an existing connection twice with two values, the
\* second of which differs from the stored one and replaces it
C1_Witness ==
    /\ last.op = "addDataSourceConnection"
    /\ Len(last.connections) = 2
    /\ last.connections[1].name = last.connections[2].name
    /\ last.connections[1] # last.connections[2]
    /\ MapHas(last.pre.connectionsMap, last.connections[1].name)
    /\ MapGet(last.pre.connectionsMap, last.connections[1].name) # last.connections[2]
    /\ MapGet(store.connectionsMap, last.connections[1].name) = last.connections[2]

\* the entries of a map, as a set of key/value pairs
MapEntries(m) == Range(m)

\* C2: filterDataSourcesFromVariables keeps exactly the prior entries whose
\* name is DEFAULT_ENGINE or is one of the variable names, each with its prior
\* value, and adds none.
C2_FilterKeepsDefaultAndUsed ==
    (last.op = "filterDataSourcesFromVariables") =>
        /\ MapEntries(store.connectionsMap) =
               {e \in MapEntries(last.pre.connectionsMap) :
                    e.key = DEFAULT_ENGINE \/ e.key \in last.names}
        /\ Len(store.connectionsMap) = Cardinality(MapKeys(store.connectionsMap))

\* a filter that drops one connection, keeps a used one and keeps the
\* default engine although no variable names it
C2_Witness ==
    /\ last.op = "filterDataSourcesFromVariables"
    /\ DEFAULT_ENGINE \notin last.names
    /\ MapHas(store.connectionsMap, DEFAULT_ENGINE)
    /\ \E k \in last.names : MapHas(store.connectionsMap, k)
    /\ \E k \in MapKeys(last.pre.connectionsMap) : ~MapHas(store.connectionsMap, k)

\* C3: after filterDataSourcesFromVariables or removeDataSourceConnection,
\* latestEngineSelected is unchanged when it is still a key of the new map and
\* is DEFAULT_ENGINE otherwise.
C3_LatestEngineFallsBack ==
    (last.op \in {"filterDataSourcesFromVariables", "removeDataSourceConnection"}) =>
        store.latestEngineSelected =
            IF MapHas(store.connectionsMap, last.pre.latestEngineSelected)
            THEN last.pre.latestEngineSelected
            ELSE DEFAULT_ENGINE

\* the selected engine was not the default and was removed from the map
C3_Witness ==
    /\ last.op \in {"filterDataSourcesFromVariables", "removeDataSourceConnection"}
    /\ last.pre.latestEngineSelected # DEFAULT_ENGINE
    /\ ~MapHas(store.connectionsMap, last.pre.latestEngineSelected)
    /\ store.latestEngineSelected = DEFAULT_ENGINE

\* C6: setLatestEngineSelected(engine) leaves the store unchanged when engine
\* is not a key of connectionsMap; when it is a key, latestEngineSelected
\* becomes engine and connectionsMap is unchanged.
C6_SetLatestOnlyForKnownEngine ==
    (last.op = "setLatestEngineSelected") =>
        IF MapHas(last.pre.connectionsMap, last.name)
        THEN /\ store.latestEngineSelected = last.name
             /\ store.connectionsMap = last.pre.connectionsMap
        ELSE store = last.pre

\* an engine that is not a key, and differs from the selected one, was set
C6_Witness ==
    /\ last.op = "setLatestEngineSelected"
    /\ ~MapHas(last.pre.connectionsMap, last.name)
    /\ last.name # last.pre.latestEngineSelected
    /\ store = last.pre

\* C18: in every state reachable by addDataSourceConnection,
\* filterDataSourcesFromVariables, clearDataSourceConnections,
\* removeDataSourceConnection and setLatestEngineSelected, latestEngineSelected
\* is a key of connectionsMap or equals DEFAULT_ENGINE.
C18_LatestEngineKnownOrDefault ==
    \/ MapHas(store.connectionsMap, store.latestEngineSelected)
    \/ store.latestEngineSelected = DEFAULT_ENGINE

\* the default engine was removed while other connections remain: the
\* selection is DEFAULT_ENGINE although the map has no such key
C18_Witness ==
    /\ last.op \in {"removeDataSourceConnection", "filterDataSourcesFromVariables"}
    /\ last.pre.latestEngineSelected # DEFAULT_ENGINE
    /\ store.latestEngineSelected = DEFAULT_ENGINE
    /\ store.connectionsMap # <<>>
    /\ ~MapHas(store.connectionsMap, DEFAULT_ENGINE)

\* C19: removeDataSourceConnection(name) leaves connectionsMap with exactly
\* the prior entries whose key is not name, each with its prior value and in
\* its prior order; when name is not a key the map is unchanged; the entry
\* of DEFAULT_ENGINE is removed like any other.
C19_RemoveDeletesOnlyName ==
    (last.op = "removeDataSourceConnection") =>
        /\ store.connectionsMap =
               SelectSeq(last.pre.connectionsMap, LAMBDA e : e.key # last.name)
        /\ ~MapHas(last.pre.connectionsMap, last.name) =>
               store.connectionsMap = last.pre.connectionsMap

\* DEFAULT_ENGINE is removed from a map that holds another connection,
\* which stays
C19_Witness ==
    /\ last.op = "removeDataSourceConnection"
    /\ last.name = DEFAULT_ENGINE
    /\ MapHas(last.pre.connectionsMap, DEFAULT_ENGINE)
    /\ ~MapHas(store.connectionsMap, DEFAULT_ENGINE)
    /\ \E k \in MapKeys(store.connectionsMap) :
           MapGet(store.connectionsMap, k) = MapGet(last.pre.connectionsMap, k)

\* C20: addDataSourceConnection never changes latestEngineSelected and keeps
\* every prior entry whose name is not in the list, with its prior value; with
\* an empty list the state is the state it was given.
C20_AddKeepsSelectionAndOthers ==
    (last.op = "addDataSourceConnection") =>
        /\ store.latestEngineSelected = last.pre.latestEngineSelected
        /\ \A e \in MapEntries(last.pre.connectionsMap) :
               e.key \notin ListNames(last.connections) =>
                   e \in MapEntries(store.connectionsMap)
        /\ Len(last.connections) = 0 => store = last.pre

\* a connection is added while another one is selected: the selection and
\* the selected connection's entry stay
C20_Witness ==
    /\ last.op = "addDataSourceConnection"
    /\ Len(last.connections) > 0
    /\ last.pre.latestEngineSelected # DEFAULT_ENGINE
    /\ last.pre.latestEngineSelected \notin ListNames(last.connections)
    /\ store.latestEngineSelected = last.pre.latestEngineSelected
    /\ store.connectionsMap # last.pre.connectionsMap

----------------------------------------------------------------------------
(* Claims about allTablesAtom *)

\* the keys of the result at the moment the i-th connection table is
\* visited: the dataset names and the keys given to the earlier visits
KeysBefore(i) ==
    {datasets[k].name : k \in DOMAIN datasets} \cup {tablesOut.savedAs[j] : j \in 1..(i - 1)}

SchemaTable(table) == table.schema \o "." \o table.name

DatabaseSchemaTable(table) == table.database \o "." \o table.schema \o "." \o table.name

\* C4: visiting the local datasets and then the connection tables in map
\* order, a table T of schema S of database D is stored under T if T is not
\* yet a key, otherwise under S.T if S.T is not yet a key, otherwise under
\* D.S.T.
C4_QualifiedNameOnCollision ==
    tablesOut.read =>
        LET visits == Visits(store.connectionsMap)
        IN  /\ Len(tablesOut.savedAs) = Len(visits)
            /\ \A i \in DOMAIN visits :
                   tablesOut.savedAs[i] =
                       IF visits[i].name \notin KeysBefore(i) THEN visits[i].name
                       ELSE IF SchemaTable(visits[i]) \notin KeysBefore(i)
                            THEN SchemaTable(visits[i])
                            ELSE DatabaseSchemaTable(visits[i])
            /\ MapKeys(tablesOut.tableNames) = KeysBefore(Len(visits) + 1)

\* one read stored tables under a plain, a schema-qualified and a fully
\* qualified name
C4_Witness ==
    /\ tablesOut.read
    /\ \E i, j, k \in DOMAIN tablesOut.savedAs :
           LET visits == Visits(store.connectionsMap)
           IN  /\ tablesOut.savedAs[i] = visits[i].name
               /\ tablesOut.savedAs[j] = SchemaTable(visits[j])
               /\ tablesOut.savedAs[k] = DatabaseSchemaTable(visits[k])

\* C5: the result holds every local dataset and every table of every
\* connection: as many entries as there are tables, and each table is the
\* value stored under the key it was saved as.
C5_EveryTableKept ==
    tablesOut.read =>
        LET visits == Visits(store.connectionsMap)
        IN  /\ Len(tablesOut.tableNames) = Len(datasets) + Len(visits)
            /\ \A i \in DOMAIN datasets :
                   MapGet(tablesOut.tableNames, datasets[i].name) = datasets[i]
            /\ \A i \in DOMAIN visits :
                   MapGet(tablesOut.tableNames, tablesOut.savedAs[i]) = visits[i]

\* the last dataset of datasetTablesAtom named n
LastDatasetNamed(n) ==
    datasets[CHOOSE i \in DOMAIN datasets :
                 /\ datasets[i].name = n
                 /\ \A j \in DOMAIN datasets : datasets[j].name = n => j <= i]

\* C21: a connection table never replaces a local dataset: for every local
\* dataset name n the entry under key n in the result of allTablesAtom is the
\* last local dataset with that name, whatever the connections contain.
C21_LocalDatasetNeverReplaced ==
    tablesOut.read =>
        \A i \in DOMAIN datasets :
            /\ MapHas(tablesOut.tableNames, datasets[i].name)
            /\ MapGet(tablesOut.tableNames, datasets[i].name).source_type = "local"
            /\ MapGet(tablesOut.tableNames, datasets[i].name) =
                   LastDatasetNamed(datasets[i].name)

\* a connection holds a table with the name of a local dataset; the
\* connection's table went under a qualified name and the dataset stayed
C21_Witness ==
    /\ tablesOut.read
    /\ \E i \in DOMAIN datasets, k \in DOMAIN tablesOut.savedAs :
           LET visits == Visits(store.connectionsMap)
           IN  /\ visits[k].name = datasets[i].name
               /\ tablesOut.savedAs[k] # datasets[i].name
               /\ MapGet(tablesOut.tableNames, tablesOut.savedAs[k]) = visits[k]
               /\ MapGet(tablesOut.tableNames, datasets[i].name) = datasets[i]

----------------------------------------------------------------------------
(* Claims about the data-sources panel *)

\* C7: every time the search input changes to a non-empty value, every
\* expanded column preview becomes collapsed, also the previews opened after
\* an earlier search.
C7_SearchClosesPreviews ==
    (panelLast.event = "onValueChange" /\ panelLast.value # "") =>
        \A tc \in DOMAIN columnExpanded : ~columnExpanded[tc]

----------------------------------------------------------------------------
(* Claims about the SQL engine selector *)

\* whether the Select shows engine as its value: value={selectedEngine?.name}
SelectShows(engine) == selectedEngine.defined /\ selectedEngine.value.name = engine

\* C8: whenever the language adapter's engine is absent from the connections
\* map, whether it was absent at mount or removed later, the mounted selector
\* shows that engine as its value and lists it as a disconnected option.
C8_DisconnectedEngineShown ==
    (selectMounted /\ ~MapHas(store.connectionsMap, adapterEngine)) =>
        SelectShows(adapterEngine) /\ engineIsDisconnected

\* the part of C8 the selector does keep: an engine that was connected when it
\* was mounted or selected stays shown, as disconnected, after its removal
C8_RemovedLaterStillShown ==
    (selectMounted /\ selectedEngine.defined) =>
        /\ SelectShows(adapterEngine)
        /\ (~MapHas(store.connectionsMap, adapterEngine) => engineIsDisconnected)

----------------------------------------------------------------------------
(* Claims about the DataTable's row ids *)

\* C9: with setPaginationState supplied, a row that is an object containing
\* INDEX_COLUMN_NAME gets the id String(row[INDEX_COLUMN_NAME]), whatever its
\* position, the pagination state and manualPagination.
C9_StableRowIdPreferred ==
    (props.rendered /\ props.setPaginationState) =>
        \A i \in DOMAIN props.data :
            HasStableId(props.data[i]) =>
                rowIds[i] = String(props.data[i].fields[INDEX_COLUMN_NAME])

\* a row with a stable id on a later page under manual pagination, at a
\* position whose index and absolute index both differ from the id
C9_Witness ==
    /\ props.rendered /\ props.setPaginationState
    /\ props.manualPagination /\ props.paginationState.defined
    /\ props.paginationState.value.pageIndex > 0
    /\ \E i \in DOMAIN props.data :
           /\ HasStableId(props.data[i])
           /\ rowIds[i] = "7"
           /\ rowIdsVirtual[i] # "7"

\* the absolute index of position idx of the page shown
AbsoluteIndex(idx, ps) == idx + ps.pageIndex * ps.pageSize

\* C10: a row without a stable index column gets the id idx (as a decimal
\* string) when paginationState is absent or manualPagination is false, and
\* idx + pageIndex * pageSize when manualPagination is true; so under manual
\* pagination with a fixed pageSize and idx < pageSize, rows at different
\* (pageIndex, idx) get different ids, each the absolute row index.  The
\* virtualized data-table gives every row these ids.
C10_IndexRowIds ==
    (props.rendered /\ props.setPaginationState) =>
        /\ \A i \in DOMAIN props.data :
               LET expected ==
                       IF ~props.paginationState.defined \/ ~props.manualPagination
                       THEN ToString(i - 1)
                       ELSE ToString(AbsoluteIndex(i - 1, props.paginationState.value))
               IN  /\ rowIdsVirtual[i] = expected
                   /\ ~HasStableId(props.data[i]) => rowIds[i] = expected
        /\ (props.manualPagination /\ props.paginationState.defined) =>
               LET ps == props.paginationState.value
               IN  \A q \in 0..MaxPageIndex, i, j \in 0..(ps.pageSize - 1) :
                       LET other == [props EXCEPT !.paginationState.value.pageIndex = q]
                       IN  /\ getRowId(NullRow, j, other) =
                                  ToString(AbsoluteIndex(j, other.paginationState.value))
                           /\ getRowIdVirtual(NullRow, j, other) =
                                  ToString(AbsoluteIndex(j, other.paginationState.value))
                           /\ <<q, j>> # <<ps.pageIndex, i>> =>
                                  /\ getRowId(NullRow, j, other) # getRowId(NullRow, i, props)
                                  /\ getRowIdVirtual(NullRow, j, other)
                                         # getRowIdVirtual(NullRow, i, props)

\* the second row of the third page of size two, under manual pagination,
\* has no stable id and is given the id 5
C10_Witness ==
    /\ props.rendered /\ props.setPaginationState
    /\ props.manualPagination /\ props.paginationState.defined
    /\ props.paginationState.value = [pageIndex |-> 2, pageSize |-> 2]
    /\ Len(props.data) = 2
    /\ ~HasStableId(props.data[2])
    /\ rowIds[2] = "5" /\ rowIdsVirtual[2] = "5"

\* C11: the pagination handed to the table is chosen by exactly one of three
\* modes: with paginationState given it is paginationState; with pagination
\* true and no paginationState no pagination key is passed; otherwise it is
\* page 0 with a page size of data.length.
C11_PaginationMode ==
    props.rendered =>
        /\ props.paginationState.defined =>
               statePagination = Defined(props.paginationState.value)
        /\ (~props.paginationState.defined /\ props.pagination) =>
               statePagination = Undefined
        /\ (~props.paginationState.defined /\ ~props.pagination) =>
               statePagination = Defined([pageIndex |-> 0, pageSize |-> Len(props.data)])

\* an uncontrolled table with two rows: no key is passed, where a table
\* without pagination would get a page of two rows
C11_Witness ==
    /\ props.rendered
    /\ ~props.paginationState.defined
    /\ props.pagination
    /\ Len(props.data) = 2
    /\ statePagination = Undefined

----------------------------------------------------------------------------
(* Claims about sortedTablesAtom *)

\* the place of the table named n in a list of tables
PlaceOf(tables, n) == CHOOSE i \in DOMAIN tables : tables[i].name = n

\* whether the table's variable is known and its first declaring cell is a
\* cell of the notebook
DeclaredInOrder(table) ==
    /\ table.variable_name \in DOMAIN variables
    /\ \E i \in DOMAIN cellIds : cellIds[i] = variables[table.variable_name].declaredBy[1]

\* the key the claim gives a table
DeclaringCellKey(table) ==
    IF table.variable_name = "" THEN -1
    ELSE IF ~DeclaredInOrder(table) THEN 0
    ELSE (CHOOSE i \in DOMAIN cellIds :
              cellIds[i] = variables[table.variable_name].declaredBy[1]) - 1

\* C12: sortedTablesAtom returns a permutation of datasetTablesAtom in which
\* the tables without a variable_name (key -1) come before every table that
\* has one, a table whose variable is unknown or whose declaring cell is not in
\* the cell order is keyed 0, the keys are non-decreasing along the list, and
\* tables with equal keys keep their order of datasetTablesAtom.
C12_SortedByDeclaringCell ==
    sortedOut.read =>
        LET out == sortedOut.tables
        IN  /\ Len(out) = Len(datasets)
            /\ Range(out) = Range(datasets)
            /\ \A i, j \in DOMAIN out :
                   i < j =>
                       /\ DeclaringCellKey(out[i]) <= DeclaringCellKey(out[j])
                       /\ (out[i].variable_name # "") => (out[j].variable_name # "")
                       /\ DeclaringCellKey(out[i]) = DeclaringCellKey(out[j]) =>
                              PlaceOf(datasets, out[i].name) < PlaceOf(datasets, out[j].name)

\* a table without a variable_name that stood last is moved before a table
\* declared in the notebook's second cell
C12_Witness ==
    /\ sortedOut.read
    /\ Len(datasets) = 2
    /\ datasets[2].variable_name = ""
    /\ DeclaringCellKey(datasets[1]) = 1
    /\ sortedOut.tables = <<datasets[2], datasets[1]>>

----------------------------------------------------------------------------
(* Claims about the add button of a table *)

\* the createNewCell calls among the calls of the last click
CellsCreated == SelectSeq(addTableCalls, LAMBDA c : c.fn = "createNewCell")

\* the code the claim gives for a table
ClaimedCode(table) ==
    CASE table.source_type = "local" -> "mo.ui.table(" \o table.name \o ")"
      [] table.source_type = "duckdb" ->
             "_df = mo.sql(f\"SELECT * FROM " \o table.name \o " LIMIT 100\")"
      [] table.source_type = "connection" ->
             "_df = mo.sql(f\"SELECT * FROM " \o table.name \o " LIMIT 100\", engine="
                 \o table.engine \o ")"

----------------------------------------------------------------------------
(* Claims about the language panel *)

\* C16: triggerUpdate dispatches one change that replaces the whole document
\* with its own text, so the document is the same before and after; it is
\* dispatched by every engine selection, every toggle of the hide-output
\* checkbox and every blur of the output-variable input.
C16_TriggerUpdateIsNoOp ==
    (panelEvent.event \in {"selectEngine", "toggleHideOutput", "blurOutputVariable"}) =>
        /\ Len(panelEvent.dispatched) = 1
        /\ panelEvent.dispatched[1].from = 0
        /\ panelEvent.dispatched[1].to = Len(panelEvent.docBefore)
        /\ panelEvent.dispatched[1].insert = panelEvent.docBefore
        /\ doc = panelEvent.docBefore

\* a connected engine other than the default was selected in a document
\* of two characters
C16_Witness ==
    /\ panelEvent.event = "selectEngine"
    /\ Len(panelEvent.docBefore) = 2
    /\ selectedEngine.defined
    /\ selectedEngine.value.name # DEFAULT_ENGINE
    /\ adapterEngine = selectedEngine.value.name
    /\ doc = panelEvent.docBefore

----------------------------------------------------------------------------
(* Claims about unwrapMarimoChatHTML *)

\* C14: for every content, unwrapMarimoChatHTML of the content wrapped in the
\* markdown span and the paragraph span returns the content's own string.
C14_UnwrapInvertsWrapper ==
    (unwrapped.called /\ chatContent.defined /\ raises = "none") =>
        unwrapped = Returns(MarkupOf(chatContent.value))

\* whether a text is written the way React writes it
WrittenEscaped(node) ==
    \A j \in DOMAIN node.pieces : EscapeTextForBrowser(DecodeEntities(node.pieces[j])) = node.pieces[j]

RECURSIVE AllWrittenEscaped(_)
AllWrittenEscaped(nodes) ==
    \A i \in DOMAIN nodes :
        IF nodes[i].kind = "text" THEN WrittenEscaped(nodes[i])
        ELSE AllWrittenEscaped(nodes[i].children)

\* the wrapper is inverted for the contents whose texts hold no bare
\* ampersand and no bare less-than sign
C14_EscapedContentRoundTrips ==
    (unwrapped.called /\ chatContent.defined /\ raises = "none"
        /\ AllWrittenEscaped(chatContent.value)) =>
        unwrapped = Returns(MarkupOf(chatContent.value))

\* C15: unwrapMarimoChatHTML never throws; it returns null when the markup
\* does not parse to a single element, when that element's children are not a
\* single element, and when parsing or rendering raises an exception; in
\* every other case it returns a string.
C15_NullOrString ==
    unwrapped.called =>
        /\ ~unwrapped.threw
        /\ unwrapped.isNull <=>
               \/ Len(html) # 1
               \/ html[1].kind # "element"
               \/ Len(html[1].children) # 1
               \/ html[1].children[1].kind # "element"
               \/ raises # "none"

\* rendering raises on a wrapped content, and null comes back
C15_Witness ==
    /\ unwrapped.called
    /\ chatContent.defined
    /\ Len(chatContent.value) = 2
    /\ raises = "render"
    /\ unwrapped = ReturnsNull

----------------------------------------------------------------------------
(* Claims about isDate *)

\* an ISO timestamp with a complete timezone designator: date and time,
\* milliseconds or none, and Z or an offset of hours and minutes
IsZonedTimestamp(value) ==
    /\ value.type = "string"
    /\ value.date # "" /\ value.time # ""
    /\ value.fraction \in {"", ".000"}
    /\ value.zone \in {"Z", "+00:00", "-00:00"}

\* C17: isDate returns true for every Date object and for the ISO timestamp
\* strings with a complete timezone designator, and false for non-date
\* values, for date-only and timezone-less ISO strings and for strings with a
\* malformed fraction or offset.
C17_IsDateAcceptsZonedTimestamps ==
    isDateResult.called =>
        isDateResult.result = (dateValue.type = "Date" \/ IsZonedTimestamp(dateValue))

\* isDate agrees with the claim on everything that is not a zoned timestamp
\* string
C17_IsDateOnOtherValues ==
    (isDateResult.called /\ ~IsZonedTimestamp(dateValue)) =>
        isDateResult.result = (dateValue.type = "Date")

----------------------------------------------------------------------------
(* Claims about the clicks on rows *)

\* C22: a click on a row of the virtualized DataTable changes the selection
\* only when some but not all rows were selected at the click, and then only
\* by toggling the clicked row; a click while no row is selected leaves the
\* selection empty, so a click never starts a selection.
C22_RowClickNeverStartsSelection ==
    lastRowClick.clicked =>
        /\ rowSelection # lastRowClick.pre =>
               /\ lastRowClick.pre # {}
               /\ Cardinality(lastRowClick.pre) < Len(props.data)
        /\ rowSelection \in
               {lastRowClick.pre,
                lastRowClick.pre \ {lastRowClick.id},
                lastRowClick.pre \cup {lastRowClick.id}}
        /\ lastRowClick.pre = {} => rowSelection = {}

\* with the first of two rows selected, a click on the second row selects
\* it too
C22_Witness ==
    /\ lastRowClick.clicked
    /\ Len(props.data) = 2
    /\ lastRowClick.pre = {"0"}
    /\ lastRowClick.id = "1"
    /\ rowSelection = {"0", "1"}

----------------------------------------------------------------------------
(* Claims about the tree of the data-sources panel *)

\* whether node m lies below node n
Below(n, m) == Len(m) > Len(n) /\ SubSeq(m, 1, Len(n)) = n

\* C23: every node of the tree (database, schema, table, column) starts
\* collapsed; a select event flips the expanded flag of its node and of no
\* other node; a node's children are rendered exactly while it is expanded;
\* and a node that is collapsed and expanded again shows all the nodes below
\* it collapsed.
C23_TreeNodesStartCollapsed ==
    /\ ~lastTreeSelect.selected => \A n \in DOMAIN treeExpanded : ~treeExpanded[n]
    /\ \A m \in TreeNodes :
           m \in DOMAIN treeExpanded <=>
               (Len(m) = 1 \/ (SubSeq(m, 1, Len(m) - 1) \in DOMAIN treeExpanded
                                   /\ treeExpanded[SubSeq(m, 1, Len(m) - 1)]))
    /\ lastTreeSelect.selected =>
           /\ treeExpanded[lastTreeSelect.node] = ~lastTreeSelect.pre[lastTreeSelect.node]
           /\ \A m \in DOMAIN treeExpanded :
                  IF m \in DOMAIN lastTreeSelect.pre
                  THEN m # lastTreeSelect.node => treeExpanded[m] = lastTreeSelect.pre[m]
                  ELSE ~treeExpanded[m]
    /\ (/\ prevTreeSelect.selected
        /\ prevTreeSelect.node = lastTreeSelect.node
        /\ prevTreeSelect.pre[prevTreeSelect.node]) =>
           /\ treeExpanded[lastTreeSelect.node]
           /\ \A m \in DOMAIN treeExpanded :
                  Below(lastTreeSelect.node, m) => ~treeExpanded[m]

\* the database was collapsed while its schema s and the table of s were
\* expanded, and is expanded again: s is shown collapsed and its table is
\* not rendered
C23_Witness ==
    /\ prevTreeSelect.selected
    /\ prevTreeSelect.node = <<"d">>
    /\ prevTreeSelect.pre[<<"d">>]
    /\ prevTreeSelect.pre[<<"d", "s">>]
    /\ prevTreeSelect.pre[<<"d", "s", "t">>]
    /\ lastTreeSelect.node = <<"d">>
    /\ treeExpanded[<<"d">>]
    /\ ~treeExpanded[<<"d", "s">>]
    /\ <<"d", "s", "t">> \notin DOMAIN treeExpanded

=============================================================================
